---- MODULE Spec2Model ----
(***************************************************************************)
(* A model of the data-normalisation core of fire_a_quote:                 *)
(*   - the quote counter  (utils/fire_a_quote_utils.py,                    *)
(*                         pop_and_increment_quote_number)                 *)
(*   - the header resolver (_norm_cols, _pick) and the item deriver        *)
(*     (fire_a_quote.py, parse_items, with _num)                           *)
(*   - the date normaliser (_fmt_date)                                     *)
(*   - the grand total and the groups by category (main, lines 309-338)    *)
(*   - one invocation of main after the other: reading the sheet, issuing  *)
(*     the quote number, rendering and writing the PDF (main, 219-423)     *)
(* Text is modelled by TLA+ strings; a character is a string of length 1.  *)
(***************************************************************************)
EXTENDS Integers, Sequences, FiniteSets, TLC

VARIABLES
    inode,      \* file system: inode number -> content of the file (text)
    dirent,     \* file system: path -> inode number, NoInode when no such file
    pc,         \* per process: position in pop_and_increment_quote_number
    current,    \* per process: the local `current`
    fd,         \* per process: inode of the open handle on tmp, NoInode if none
    pos,        \* per process: offset of that handle
    returned,   \* the identifiers returned so far, in order of return
    calls,      \* number of invocations begun
    df_columns, \* parse_items: the headers of df_raw, in column order
    columns,    \* parse_items: df.columns, the headers after _norm_cols
    col,        \* parse_items: col_sku, col_qty, ...: the header picked per field
    r,          \* parse_items: the row of the current iteration, a cell per column
    items,      \* parse_items: the list `items`
    emitted,    \* parse_items: whether the iteration just done appended an item
    nrows,      \* parse_items: rows iterated so far
    pi_pc,      \* parse_items: position ("start", "loop", "done", "raised")
    bom_total,  \* main: the grand total
    groups,     \* main: items_by_category, the groups in order
    main_pc,    \* main: position ("idle", "parse", "grouped", "issuing",
                \*       "issued", "written", "done", "aborted")
    quote_number,   \* main: meta["quote_number"], "" before line 347
    counter_calls,  \* main: calls of pop_and_increment_quote_number made by
                    \*       this invocation
    outputs     \* the identifiers of the quotes written to "Generated Quotes"

counterVars == <<inode, dirent, pc, current, fd, pos, returned, calls>>

itemVars == <<df_columns, columns, col, r, items, emitted, nrows, pi_pc>>

mainVars == <<bom_total, groups, main_pc, quote_number, counter_calls, outputs>>

vars == <<counterVars, itemVars, mainVars>>

----------------------------------------------------------------------------
(* Bounds of the model *)

\* invocations of pop_and_increment_quote_number begun in one behaviour
MaxCalls == 3

\* the same, for the calls that start from a missing or empty file
MaxFreshCalls == 10

\* processes that may invoke pop_and_increment_quote_number
NumProcs == 2

Procs == 1..NumProcs

----------------------------------------------------------------------------
(* Text helpers *)

Digits == "0123456789"

\* a byte that is not valid UTF-8: read_text(encoding="utf-8") raises on it
BadByte == "~"

\* the NUL a file holds where a write landed beyond its end
NulChar == "@"

Char(s, i) == SubSeq(s, i, i)

IsDigit(ch) == \E d \in 1..10 : Char(Digits, d) = ch

DigitVal(ch) == CHOOSE d \in 0..9 : Char(Digits, d + 1) = ch

IsSpace(ch) == ch \in {" ", "\n", "\t"}

\* str.strip()
RECURSIVE LStrip(_)
LStrip(s) ==
    IF Len(s) > 0 /\ IsSpace(Char(s, 1)) THEN LStrip(SubSeq(s, 2, Len(s))) ELSE s

RECURSIVE RStrip(_)
RStrip(s) ==
    IF Len(s) > 0 /\ IsSpace(Char(s, Len(s)))
    THEN RStrip(SubSeq(s, 1, Len(s) - 1)) ELSE s

Strip(s) == RStrip(LStrip(s))

\* int(<run of decimal digits>)
RECURSIVE ParseInt(_)
ParseInt(s) ==
    IF Len(s) = 0 THEN 0
    ELSE 10 * ParseInt(SubSeq(s, 1, Len(s) - 1)) + DigitVal(Char(s, Len(s)))

\* str(n) for an integer n >= 0
RECURSIVE Str(_)
Str(n) ==
    IF n < 10 THEN Char(Digits, n + 1)
    ELSE Str(n \div 10) \o Char(Digits, (n % 10) + 1)

\* the longest run of digits that starts s (empty when s starts with none)
RECURSIVE LeadingDigits(_)
LeadingDigits(s) ==
    IF Len(s) > 0 /\ IsDigit(Char(s, 1))
    THEN Char(s, 1) \o LeadingDigits(SubSeq(s, 2, Len(s)))
    ELSE ""

\* the first digit alone, as r"(\d)" would match
RECURSIVE SearchOneDigit(_)
SearchOneDigit(raw) ==
    IF Len(raw) = 0 THEN ""
    ELSE IF IsDigit(Char(raw, 1)) THEN Char(raw, 1)
    ELSE SearchOneDigit(SubSeq(raw, 2, Len(raw)))

\* re.search(r"(\d+)", raw): the leftmost, longest run of digits; "" for no match
RECURSIVE SearchDigits(_)
SearchDigits(raw) ==
    IF Len(raw) = 0 THEN ""
    ELSE IF IsDigit(Char(raw, 1)) THEN LeadingDigits(raw)
    ELSE SearchDigits(SubSeq(raw, 2, Len(raw)))

Contains(s, sub) ==
    \E i \in 1..(Len(s) - Len(sub) + 1) : SubSeq(s, i, i + Len(sub) - 1) = sub

----------------------------------------------------------------------------
(* The quote counter: pop_and_increment_quote_number *)

NoInode == 0

\* one inode per path and one per open handle is the most that can be live
Inodes == 1..(NumProcs + 2)

QUOTE_COUNTER_PATH == "utils/quote_number.txt"

Prefix == "Q-"

\* Path.with_suffix: the last "." of the final component starts the suffix
RECURSIVE StemEnd(_, _)
StemEnd(path, i) ==
    IF i = 0 \/ Char(path, i) = "/" THEN Len(path)
    ELSE IF Char(path, i) = "." THEN i - 1
    ELSE StemEnd(path, i - 1)

with_suffix(path, suffix) == SubSeq(path, 1, StemEnd(path, Len(path))) \o suffix

CounterPath == QUOTE_COUNTER_PATH

TmpPathSame(path) == path

\* tmp = path.with_suffix(".tmp")
TmpPath(path) == with_suffix(path, ".tmp")

Paths == {CounterPath, TmpPath(CounterPath)}

Exists(path) == dirent[path] # NoInode

Content(path) == inode[dirent[path]]

Referenced(d, f) == {d[p] : p \in DOMAIN d} \cup {f[p] : p \in DOMAIN f}

\* an inode no path and no handle refers to is gone
Collect(ino, d, f) ==
    [i \in Inodes |-> IF i \in Referenced(d, f) THEN ino[i] ELSE ""]

FreshInode == CHOOSE i \in Inodes : i \notin Referenced(dirent, fd)

\* `current = 1`: the value when the file gives none
DefaultCurrent == 1

\* lines 87-96: the value of `current` after the try block
ParseCurrent(path) ==
    IF ~Exists(path) THEN DefaultCurrent                \* FileNotFoundError
    ELSE IF Contains(Content(path), BadByte)
         THEN DefaultCurrent                            \* UnicodeDecodeError
    ELSE LET raw == Strip(Content(path))
             m   == IF raw # "" THEN SearchDigits(raw) ELSE ""
         IN  IF m # "" THEN ParseInt(m) ELSE DefaultCurrent

NextValStuck(cur) == cur

\* next_val = current + 1
NextVal(cur) == cur + 1

IdentOfNext(prefix, cur) == prefix \o Str(cur + 1)

\* f"{prefix}{current}"
Ident(prefix, cur) == prefix \o Str(cur)

RECURSIVE Nuls(_)
Nuls(n) == IF n <= 0 THEN "" ELSE NulChar \o Nuls(n - 1)

\* the file content after one character is written at offset off
WriteAt(text, off, ch) ==
    IF off >= Len(text)
    THEN text \o Nuls(off - Len(text)) \o ch
    ELSE SubSeq(text, 1, off) \o ch \o SubSeq(text, off + 2, Len(text))

\* the contents the counter file may hold before the first invocation
InitialContents ==
    {"", "7", "Q-9", " 08\n", "none", "a12b3", "~5", "99"}

NoFiles == [p \in Paths |-> NoInode]

InitLocals ==
    /\ pc = [p \in Procs |-> "idle"]
    /\ current = [p \in Procs |-> 0]
    /\ fd = [p \in Procs |-> NoInode]
    /\ pos = [p \in Procs |-> 0]
    /\ returned = <<>>
    /\ calls = 0

\* parse_items is not running
ItemsIdle ==
    /\ df_columns = <<>>
    /\ columns = <<>>
    /\ col = <<>>
    /\ r = <<>>
    /\ items = <<>>
    /\ emitted = FALSE
    /\ nrows = 0
    /\ pi_pc = "idle"
    /\ bom_total = 0
    /\ groups = <<>>
    /\ main_pc = "idle"
    /\ quote_number = ""
    /\ counter_calls = 0
    /\ outputs = <<>>

\* the counter file is missing
InitMissing ==
    /\ inode = [i \in Inodes |-> ""]
    /\ dirent = NoFiles

\* the counter file exists and holds text
InitHolding(text) ==
    /\ inode = [i \in Inodes |-> IF i = 1 THEN text ELSE ""]
    /\ dirent = [NoFiles EXCEPT ![CounterPath] = 1]

\* a call of pop_and_increment_quote_number by process p, line 84 included
\* (mkdir of the parent directory changes no file)
CallBy(p, limit) ==
    /\ pc[p] = "idle"
    /\ calls < limit
    /\ calls' = calls + 1
    /\ pc' = [pc EXCEPT ![p] = "read"]
    /\ UNCHANGED <<inode, dirent, current, fd, pos, returned, itemVars>>

\* the call, made by a caller other than main
Call(p, limit) == CallBy(p, limit) /\ UNCHANGED mainVars

Begin(p) == Call(p, MaxCalls)

\* a call when no other invocation is in progress
BeginAlone(p) ==
    /\ \A q \in Procs : pc[q] = "idle"
    /\ Call(p, MaxCalls)

BeginFresh(p) ==
    /\ \A q \in Procs : pc[q] = "idle"
    /\ Call(p, MaxFreshCalls)

ReadCounterLocked(p) ==
    /\ pc[p] = "read"
    /\ \A q \in Procs \ {p} : pc[q] \in {"idle", "read"}
    /\ current' = [current EXCEPT ![p] = ParseCurrent(CounterPath)]
    /\ pc' = [pc EXCEPT ![p] = "open"]
    /\ UNCHANGED <<inode, dirent, fd, pos, returned, calls, itemVars, mainVars>>

\* lines 86-96: read the file and set `current`
ReadCounter(p) ==
    /\ pc[p] = "read"
    /\ current' = [current EXCEPT ![p] = ParseCurrent(CounterPath)]
    /\ pc' = [pc EXCEPT ![p] = "open"]
    /\ UNCHANGED <<inode, dirent, fd, pos, returned, calls, itemVars, mainVars>>

\* line 101, tmp.write_text: open(tmp, "w") creates the file or truncates it
OpenTmp(p) ==
    /\ pc[p] = "open"
    /\ LET tmp == TmpPath(CounterPath)
           i   == IF Exists(tmp) THEN dirent[tmp] ELSE FreshInode
       IN  /\ dirent' = [dirent EXCEPT ![tmp] = i]
           /\ inode' = [inode EXCEPT ![i] = ""]
           /\ fd' = [fd EXCEPT ![p] = i]
    /\ pos' = [pos EXCEPT ![p] = 0]
    /\ pc' = [pc EXCEPT ![p] = "write"]
    /\ UNCHANGED <<current, returned, calls, itemVars, mainVars>>

\* line 101, tmp.write_text: one more character of str(next_val) reaches the file
WriteTmp(p) ==
    /\ pc[p] = "write"
    /\ LET text == Str(NextVal(current[p]))
       IN  /\ pos[p] < Len(text)
           /\ inode' = [inode EXCEPT
                  ![fd[p]] = WriteAt(@, pos[p], Char(text, pos[p] + 1))]
    /\ pos' = [pos EXCEPT ![p] = @ + 1]
    /\ UNCHANGED <<dirent, pc, current, fd, returned, calls, itemVars, mainVars>>

\* line 101, tmp.write_text: everything is written, the handle is closed
CloseTmp(p) ==
    /\ pc[p] = "write"
    /\ pos[p] = Len(Str(NextVal(current[p])))
    /\ fd' = [fd EXCEPT ![p] = NoInode]
    /\ inode' = Collect(inode, dirent, fd')
    /\ pos' = [pos EXCEPT ![p] = 0]
    /\ pc' = [pc EXCEPT ![p] = "replace"]
    /\ UNCHANGED <<dirent, current, returned, calls, itemVars, mainVars>>

\* line 102, tmp.replace(path): the rename; FileNotFoundError when tmp is gone
ReplaceTmp(p) ==
    /\ pc[p] = "replace"
    /\ LET tmp == TmpPath(CounterPath)
       IN  IF Exists(tmp)
           THEN /\ dirent' = [q \in Paths |->
                       IF q = CounterPath THEN dirent[tmp]
                       ELSE IF q = tmp THEN NoInode ELSE dirent[q]]
                /\ pc' = [pc EXCEPT ![p] = "return"]
                /\ UNCHANGED current
           ELSE /\ dirent' = dirent
                /\ pc' = [pc EXCEPT ![p] = "idle"]
                /\ current' = [current EXCEPT ![p] = 0]
    /\ inode' = Collect(inode, dirent', fd)
    /\ UNCHANGED <<fd, pos, returned, calls, itemVars, mainVars>>

\* line 104: return f"{prefix}{current}"
ReturnTo(p) ==
    /\ pc[p] = "return"
    /\ returned' = Append(returned, Ident(Prefix, current[p]))
    /\ pc' = [pc EXCEPT ![p] = "idle"]
    /\ current' = [current EXCEPT ![p] = 0]
    /\ UNCHANGED <<inode, dirent, fd, pos, calls, itemVars>>

\* the return, to a caller other than main
Return(p) == ReturnTo(p) /\ UNCHANGED mainVars

\* line 101: open or write raises OSError (read-only directory, full disk);
\* the handle is closed, what was written stays, the exception leaves the
\* function
FailWrite(p) ==
    /\ pc[p] \in {"open", "write"}
    /\ pc' = [pc EXCEPT ![p] = "raised"]
    /\ fd' = [fd EXCEPT ![p] = NoInode]
    /\ pos' = [pos EXCEPT ![p] = 0]
    /\ inode' = Collect(inode, dirent, fd')
    /\ UNCHANGED <<dirent, current, returned, calls, itemVars, mainVars>>

\* a rename that raises after it has replaced the counter file
FailReplaceDone(p) ==
    /\ pc[p] = "replace"
    /\ Exists(TmpPath(CounterPath))
    /\ dirent' = [q \in Paths |->
           IF q = CounterPath THEN dirent[TmpPath(CounterPath)]
           ELSE IF q = TmpPath(CounterPath) THEN NoInode ELSE dirent[q]]
    /\ inode' = Collect(inode, dirent', fd)
    /\ pc' = [pc EXCEPT ![p] = "raised"]
    /\ UNCHANGED <<current, fd, pos, returned, calls, itemVars, mainVars>>

\* line 102: the rename raises OSError; no directory entry changes, the
\* exception leaves the function
FailReplace(p) ==
    /\ pc[p] = "replace"
    /\ pc' = [pc EXCEPT ![p] = "raised"]
    /\ UNCHANGED <<inode, dirent, current, fd, pos, returned, calls, itemVars, mainVars>>

\* the exception has reached the caller: the invocation is over, without a
\* return value
CaughtBy(p) ==
    /\ pc[p] = "raised"
    /\ pc' = [pc EXCEPT ![p] = "idle"]
    /\ current' = [current EXCEPT ![p] = 0]
    /\ UNCHANGED <<inode, dirent, fd, pos, returned, calls, itemVars>>

Caught(p) == CaughtBy(p) /\ UNCHANGED mainVars

\* the process stops at any step of an invocation; its handle is closed
Crash(p) ==
    /\ pc[p] # "idle"
    /\ pc' = [pc EXCEPT ![p] = "idle"]
    /\ current' = [current EXCEPT ![p] = 0]
    /\ fd' = [fd EXCEPT ![p] = NoInode]
    /\ pos' = [pos EXCEPT ![p] = 0]
    /\ inode' = Collect(inode, dirent, fd')
    /\ UNCHANGED <<dirent, returned, calls, itemVars, mainVars>>

Step(p) ==
    \/ ReadCounter(p)
    \/ OpenTmp(p)
    \/ WriteTmp(p)
    \/ CloseTmp(p)
    \/ ReplaceTmp(p)
    \/ Return(p)

\* calls one after the other on a missing or empty counter file, none stopped
InitFresh == InitLocals /\ ItemsIdle /\ (InitMissing \/ InitHolding(""))

NextFresh == \E p \in Procs : BeginFresh(p) \/ Step(p)

SpecFresh == InitFresh /\ [][NextFresh]_vars

\* calls one after the other on any counter file, each may stop at any step
InitSeq ==
    /\ InitLocals
    /\ ItemsIdle
    /\ (InitMissing \/ \E t \in InitialContents : InitHolding(t))

NextSeq == \E p \in Procs : BeginAlone(p) \/ Step(p) \/ Crash(p)

SpecSeq == InitSeq /\ [][NextSeq]_vars

\* calls of separate processes that interleave
NextConc == \E p \in Procs : Begin(p) \/ Step(p)

SpecConc == InitSeq /\ [][NextConc]_vars

\* calls one after the other in a location where writing may fail
NextIO ==
    \E p \in Procs :
        BeginAlone(p) \/ Step(p) \/ FailWrite(p) \/ FailReplace(p) \/ Caught(p)

SpecIO == InitSeq /\ [][NextIO]_vars

----------------------------------------------------------------------------
(* Properties of the quote counter *)

AllIdle == \A p \in Procs : pc[p] = "idle"

\* text is the decimal numeral of n: digits only, no leading zero
IsDecimalOf(text, n) ==
    /\ Len(text) >= 1
    /\ \A i \in 1..Len(text) : IsDigit(Char(text, i))
    /\ Len(text) > 1 => Char(text, 1) # "0"
    /\ ParseInt(text) = n

\* ident is prefix followed by the decimal numeral of n
IsIdentOf(ident, prefix, n) ==
    /\ Len(ident) > Len(prefix)
    /\ SubSeq(ident, 1, Len(prefix)) = prefix
    /\ IsDecimalOf(SubSeq(ident, Len(prefix) + 1, Len(ident)), n)

\* the integer of an identifier issued with Prefix
IdentInt(ident) == ParseInt(SubSeq(ident, Len(Prefix) + 1, Len(ident)))

CounterHolds(n) ==
    Exists(CounterPath) /\ IsDecimalOf(Content(CounterPath), n)

\* C1: from a missing or empty counter file, n calls one after the other
\* return "Q-1", ..., "Q-n" in that order, and after the k-th call the file
\* holds the text of k + 1.
C1_FreshCallsCountUp ==
    /\ \A k \in 1..Len(returned) : IsIdentOf(returned[k], "Q-", k)
    /\ Len(returned) >= 2 => returned[1] = "Q-1" /\ returned[2] = "Q-2"
    /\ (AllIdle /\ calls >= 1) => (Len(returned) = calls /\ CounterHolds(calls + 1))
    /\ \A p \in Procs : pc[p] = "return" => CounterHolds(calls + 1)

C1_TenthCallReturned ==
    /\ AllIdle
    /\ Len(returned) = 10
    /\ returned[10] = "Q-10"
    /\ Content(CounterPath) = "11"

IsFirstDigitRun(text, i, j) ==
    /\ 1 <= i /\ i <= j /\ j <= Len(text)
    /\ \A k \in 1..(i - 1) : ~IsDigit(Char(text, k))
    /\ \A k \in i..j : IsDigit(Char(text, k))
    /\ j < Len(text) => ~IsDigit(Char(text, j + 1))

HasDigit(text) == \E k \in 1..Len(text) : IsDigit(Char(text, k))

\* the integer of the first run of digits of text
FirstRunInt(text) ==
    LET ij == CHOOSE ij \in (1..Len(text)) \X (1..Len(text)) :
                  IsFirstDigitRun(text, ij[1], ij[2])
    IN  ParseInt(SubSeq(text, ij[1], ij[2]))

\* `current` as C3 states it: 1 for an absent or empty file or one without digit
ClaimedCurrent ==
    IF Exists(CounterPath) /\ HasDigit(Content(CounterPath))
    THEN FirstRunInt(Content(CounterPath))
    ELSE 1

\* the same, and 1 as well for a file that cannot be decoded as UTF-8
DecodableCurrent ==
    IF Exists(CounterPath) /\ Contains(Content(CounterPath), BadByte)
    THEN 1
    ELSE ClaimedCurrent

\* what one step of an invocation does, given the value `current` must take
CounterStep(cur) ==
    \A p \in Procs :
        /\ (pc[p] = "read" /\ pc'[p] = "open") => current'[p] = cur
        /\ (pc[p] = "replace" /\ pc'[p] = "return") => CounterHolds(current[p] + 1)'
        /\ (pc[p] = "return" /\ pc'[p] = "idle" /\ returned' # returned) =>
               /\ Len(returned') = Len(returned) + 1
               /\ IsIdentOf(returned'[Len(returned')], Prefix, current[p])
               /\ CounterHolds(current[p] + 1)
               /\ dirent' = dirent /\ inode' = inode

\* C3 as stated: `current` is the integer of the first run of digits of the
\* stored content, or 1 when the file is absent, empty or without digit; the
\* call returns prefix + current and leaves the decimal text of current + 1.
C3_AsStated == [][CounterStep(ClaimedCurrent)]_vars

\* C3 as amended: the same, with `current` also 1 when the stored content
\* cannot be read as UTF-8 text, whatever digits it holds.
C3_CurrentFromFirstDigitRun == [][CounterStep(DecodableCurrent)]_vars

\* a call returned after reading a prefixed content with two runs of digits
C3_ReadPrefixedContent ==
    /\ AllIdle
    /\ calls = 1
    /\ returned = <<"Q-12">>
    /\ Content(CounterPath) = "13"

InWindow(p) == pc[p] \in {"open", "write", "replace"}

\* C5: no lock keeps a second process from reading the counter while a first
\* is between its read and its rename: the second can read the same number,
\* so both can return the same identifier.
C5_SecondReaderGetsSameNumber ==
    \A p, q \in Procs :
        (p # q /\ InWindow(p) /\ pc[q] = "read"
               /\ ParseCurrent(CounterPath) = current[p])
        => ENABLED (ReadCounter(q) /\ current'[q] = current[p])

\* two invocations have returned the same identifier
C5_DuplicateIdentifier ==
    /\ Len(returned) >= 2
    /\ returned[1] = returned[2]

----------------------------------------------------------------------------
(* Cells of the data frame and Python's conversions on them *)

UpperLetters == "ABCDEFGHIJKLMNOPQRSTUVWXYZ"

LowerLetters == "abcdefghijklmnopqrstuvwxyz"

LowerChar(ch) ==
    IF \E i \in 1..26 : Char(UpperLetters, i) = ch
    THEN Char(LowerLetters, CHOOSE i \in 1..26 : Char(UpperLetters, i) = ch)
    ELSE ch

\* str.lower()
RECURSIVE Lower(_)
Lower(s) ==
    IF Len(s) = 0 THEN "" ELSE LowerChar(Char(s, 1)) \o Lower(SubSeq(s, 2, Len(s)))

\* str.replace(ch, "") for a single character ch
RECURSIVE Remove(_, _)
Remove(s, ch) ==
    IF Len(s) = 0 THEN ""
    ELSE (IF Char(s, 1) = ch THEN "" ELSE Char(s, 1)) \o Remove(SubSeq(s, 2, Len(s)), ch)

Abs(n) == IF n < 0 THEN -n ELSE n

RECURSIVE GCD(_, _)
GCD(a, b) == IF b = 0 THEN a ELSE GCD(b, a % b)

RECURSIVE Pow10(_)
Pow10(n) == IF n = 0 THEN 1 ELSE 10 * Pow10(n - 1)

\* A Python value that _num yields or arithmetic computes: a float (finite, held
\* exactly as the fraction n/d in lowest terms; NaN; an infinity of sign n), the
\* int n (d = 1, k = "int"), or None.
Fin(n, d) ==
    LET g == GCD(Abs(n), d)
    IN  [k |-> "fin", n |-> n \div g, d |-> d \div g]

PyInt(n) == [k |-> "int", n |-> n, d |-> 1]

NaN == [k |-> "nan", n |-> 0, d |-> 1]

Inf(sign) == [k |-> "inf", n |-> sign, d |-> 1]

None == [k |-> "None", n |-> 0, d |-> 1]

IsFinite(a) == a.k \in {"fin", "int"}

IsZero(a) == IsFinite(a) /\ a.n = 0

Sign(a) == IF a.n > 0 THEN 1 ELSE IF a.n < 0 THEN -1 ELSE 0

\* bool(x) of a number or None
Truthy(a) == a.k # "None" /\ ~IsZero(a)

\* a > 0
Positive(a) == a.k \in {"fin", "int", "inf"} /\ a.n > 0

\* np.isnan(a)
isnan(a) == a.k = "nan"

\* a * b where one operand at least is a float
FMul(a, b) ==
    IF a.k = "nan" \/ b.k = "nan" THEN NaN
    ELSE IF a.k = "inf" \/ b.k = "inf"
         THEN IF Sign(a) * Sign(b) = 0 THEN NaN ELSE Inf(Sign(a) * Sign(b))
    ELSE Fin(a.n * b.n, a.d * b.d)

\* a - b where one operand at least is a float
FSub(a, b) ==
    IF a.k = "nan" \/ b.k = "nan" THEN NaN
    ELSE IF a.k = "inf" /\ b.k = "inf"
         THEN IF a.n = b.n THEN NaN ELSE Inf(a.n)
    ELSE IF a.k = "inf" THEN Inf(a.n)
    ELSE IF b.k = "inf" THEN Inf(-b.n)
    ELSE Fin(a.n * b.d - b.n * a.d, a.d * b.d)

\* a / q for a float a and an int q # 0
FDivInt(a, q) ==
    IF a.k = "nan" THEN NaN
    ELSE IF a.k = "inf" THEN Inf(a.n * (IF q > 0 THEN 1 ELSE -1))
    ELSE IF q > 0 THEN Fin(a.n, a.d * q)
    ELSE Fin(-a.n, a.d * (-q))

\* int(a) for a finite float: truncation toward zero
TruncInt(a) == IF a.n >= 0 THEN a.n \div a.d ELSE -((-a.n) \div a.d)

\* float(x) of a number: an int becomes the float of the same value
ToFloat(a) == IF a.k = "int" THEN Fin(a.n, 1) ELSE a

\* float(text): optional sign, then nan / inf / infinity in any case, or
\* digits with an optional fraction; None stands for ValueError.  (Exponents
\* and digit-group underscores, which float() also accepts, are not parsed:
\* no text drawn below has them.)
ParseFloat(text) ==
    LET t     == Strip(text)
        neg   == Len(t) > 0 /\ Char(t, 1) = "-"
        sgn   == Len(t) > 0 /\ Char(t, 1) \in {"-", "+"}
        body  == IF sgn THEN SubSeq(t, 2, Len(t)) ELSE t
        whole == LeadingDigits(body)
        after == SubSeq(body, Len(whole) + 1, Len(body))
        frac  == IF Len(after) > 0 /\ Char(after, 1) = "."
                 THEN LeadingDigits(SubSeq(after, 2, Len(after))) ELSE ""
        rest  == IF Len(after) > 0 /\ Char(after, 1) = "."
                 THEN SubSeq(after, Len(frac) + 2, Len(after)) ELSE after
        mag   == ParseInt(whole \o frac)
    IN  IF Lower(body) = "nan" THEN NaN
        ELSE IF Lower(body) \in {"inf", "infinity"} THEN Inf(IF neg THEN -1 ELSE 1)
        ELSE IF rest # "" \/ (whole = "" /\ frac = "") THEN None
        ELSE Fin(IF neg THEN -mag ELSE mag, Pow10(Len(frac)))

\* n as decimal digits, zero-padded on the left to width w
Pad(n, w) ==
    LET t == Str(n)
    IN  IF Len(t) >= w THEN t ELSE SubSeq("0000", 1, w - Len(t)) \o t

\* strftime("%Y-%m-%d") of the day `days` days after 1970-01-01
CivilDate(days) ==
    LET z   == days + 719468
        era == z \div 146097
        doe == z - era * 146097
        yoe == (doe - doe \div 1460 + doe \div 36524 - doe \div 146096) \div 365
        doy == doe - (365 * yoe + yoe \div 4 - yoe \div 100)
        mp  == (5 * doy + 2) \div 153
        dd  == doy - (153 * mp + 2) \div 5 + 1
        mm  == IF mp < 10 THEN mp + 3 ELSE mp - 9
        yy  == yoe + era * 400 + (IF mm <= 2 THEN 1 ELSE 0)
    IN  Pad(yy, 4) \o "-" \o Pad(mm, 2) \o "-" \o Pad(dd, 2)

\* A cell of the data frame:
\*   t = "int"    the Python int v
\*   t = "float"  the finite float v / 100
\*   t = "nan"    the float NaN (a blank cell of a numeric column)
\*   t = "None"   None (a blank cell of an object column)
\*   t = "str"    the text s
\*   t = "Series" what r.get(header) gives when the header names several columns
\*   t = "date"   the pd.Timestamp of midnight, v days after 1970-01-01
\*   t = "NaT"    pd.NaT (a blank cell of a column of dates)
IntCell(v) == [t |-> "int", v |-> v, s |-> ""]

FloatCell(hundredths) == [t |-> "float", v |-> hundredths, s |-> ""]

NaNCell == [t |-> "nan", v |-> 0, s |-> ""]

NoneCell == [t |-> "None", v |-> 0, s |-> ""]

StrCell(text) == [t |-> "str", v |-> 0, s |-> text]

SeriesCell == [t |-> "Series", v |-> 0, s |-> ""]

DateCell(days) == [t |-> "date", v |-> days, s |-> ""]

NaTCell == [t |-> "NaT", v |-> 0, s |-> ""]

\* repr of the finite float h / 100: at least one digit after the point
FloatRepr(h) ==
    LET a == Abs(h)
        f == a % 100
    IN  (IF h < 0 THEN "-" ELSE "") \o Str(a \div 100) \o "." \o
        (IF f % 10 = 0 THEN Str(f \div 10) ELSE Str(f \div 10) \o Str(f % 10))

\* str(x) of a cell; the text of a Series (several lines) is abridged
PyStr(x) ==
    CASE x.t = "int"    -> (IF x.v < 0 THEN "-" ELSE "") \o Str(Abs(x.v))
      [] x.t = "float"  -> FloatRepr(x.v)
      [] x.t = "nan"    -> "nan"
      [] x.t = "None"   -> "None"
      [] x.t = "str"    -> x.s
      [] x.t = "Series" -> "0    x\n1    x\ndtype: object"
      [] x.t = "date"   -> CivilDate(x.v) \o " 00:00:00"
      [] x.t = "NaT"    -> "NaT"

\* pd.notna(x) of a scalar cell
notna(x) == x.t \notin {"nan", "None", "NaT"}

\* lines 61-65: float(str(x).replace(",", "").replace("$", "")), None on failure
_num(x) == ParseFloat(Remove(Remove(PyStr(x), ","), "$"))

----------------------------------------------------------------------------
(* The header resolver: _norm_cols, _pick and CANDIDATES *)

CANDIDATES ==
    [ sku            |-> <<"sku", "part", "item", "product", "pn", "part number",
                           "mpn", "partner sku">>,
      qty            |-> <<"qty", "quantity", "qnty", "q'ty">>,
      description    |-> <<"description", "desc", "product description",
                           "item description">>,
      unit_price     |-> <<"unit price", "price", "list price", "unitprice",
                           "price ea", "each">>,
      discount       |-> <<"discount">>,
      discount_price |-> <<"discount price", "discounted price", "sell price",
                           "your price", "net price">>,
      extended       |-> <<"extended", "extended price", "ext", "subtotal",
                           "line total", "amount">>,
      notes          |-> <<"notes", "note", "comments", "line notes">>,
      category       |-> <<"product type", "category", "product category", "type">>,
      start_date     |-> <<"start date", "start", "service start", "begin",
                           "term start">>,
      end_date       |-> <<"end date", "end", "service end", "finish", "term end">> ]

Fields == DOMAIN CANDIDATES

\* the fields parse_items picks a column for (lines 131-147)
PickedFields == Fields \ {"extended"}

\* _pick's None: no normalised header has an upper-case letter
NoColumn == "None"

\* _norm_cols: df.columns = [str(c).strip().lower() for c in df.columns]
_norm_cols(headers) == [j \in 1..Len(headers) |-> Lower(Strip(headers[j]))]

\* [c.lower() for c in CANDIDATES[field]]
LowerNames(field) ==
    [i \in 1..Len(CANDIDATES[field]) |-> Lower(CANDIDATES[field][i])]

\* lines 52-54: the first name that is a header
RECURSIVE PickExact(_, _, _)
PickExact(cols, names, i) ==
    IF i > Len(names) THEN NoColumn
    ELSE IF \E j \in 1..Len(cols) : cols[j] = names[i] THEN names[i]
    ELSE PickExact(cols, names, i + 1)

\* lines 55-58: the first header, under the first name, that holds the name
RECURSIVE PickSubstring(_, _, _, _)
PickSubstring(cols, names, i, j) ==
    IF i > Len(names) THEN NoColumn
    ELSE IF j > Len(cols) THEN PickSubstring(cols, names, i + 1, 1)
    ELSE IF Contains(cols[j], names[i]) THEN cols[j]
    ELSE PickSubstring(cols, names, i, j + 1)

\* one loop that takes a name's exact or substring match before the next name
RECURSIVE PickOnePass(_, _, _)
PickOnePass(cols, names, i) ==
    IF i > Len(names) THEN NoColumn
    ELSE IF \E j \in 1..Len(cols) : cols[j] = names[i] THEN names[i]
    ELSE IF \E j \in 1..Len(cols) : Contains(cols[j], names[i])
         THEN cols[CHOOSE j \in 1..Len(cols) :
                       /\ Contains(cols[j], names[i])
                       /\ \A h \in 1..(j - 1) : ~Contains(cols[h], names[i])]
    ELSE PickOnePass(cols, names, i + 1)

_pick_one_pass(cols, names) == PickOnePass(cols, names, 1)

\* lines 51-59
_pick(cols, names) ==
    IF PickExact(cols, names, 1) # NoColumn THEN PickExact(cols, names, 1)
    ELSE PickSubstring(cols, names, 1, 1)

----------------------------------------------------------------------------
(* The date normaliser: _fmt_date *)

\* days from 1899-12-30, the origin of serial dates, to 1970-01-01
SerialEpochOffset == 25569

\* the serial numbers pd.to_datetime(unit="D", origin="1899-12-30") accepts:
\* the midnights from pd.Timestamp.min (in 1677-09-21) to pd.Timestamp.max
\* (in 2262-04-11)
SerialInRange(n) == n >= -81182 /\ n <= 132320

\* text of the form YYYY-MM-DD with a month and a day that exist
IsIsoDate(t) ==
    /\ Len(t) = 10
    /\ \A i \in {1, 2, 3, 4, 6, 7, 9, 10} : IsDigit(Char(t, i))
    /\ Char(t, 5) = "-" /\ Char(t, 8) = "-"
    /\ ParseInt(SubSeq(t, 6, 7)) \in 1..12
    /\ ParseInt(SubSeq(t, 9, 10)) \in 1..28

\* lines 111-122: pd.to_datetime(s) normalises the text of a date and the text
\* comes back stripped when it is none.  Of the forms pd.to_datetime reads, the
\* ISO form is modelled; the texts drawn below hold no other.
FmtDateText(text) ==
    LET t == Strip(text) IN IF IsIsoDate(t) THEN t ELSE t

\* lines 96-97: pd.NaT is an instance of datetime and its strftime raises
\* ValueError, which _fmt_date does not catch
FmtDateRaises(v) == v.t = "NaT"

\* lines 82-122: the string returned, when FmtDateRaises(v) is false
_fmt_date(v) ==
    CASE v.t \in {"None", "nan"} -> ""
      [] v.t = "str" -> IF Strip(v.s) = "" THEN "" ELSE FmtDateText(v.s)
      [] v.t = "date" -> CivilDate(v.v)
      [] v.t = "NaT" -> "NaT"
      [] v.t = "int" ->
            IF SerialInRange(v.v) THEN CivilDate(v.v - SerialEpochOffset)
            ELSE FmtDateText(PyStr(v))
      [] v.t = "float" ->
            IF SerialInRange(v.v \div 100)
            THEN CivilDate((v.v \div 100) - SerialEpochOffset)
            ELSE FmtDateText(PyStr(v))
      [] v.t = "Series" -> FmtDateText(PyStr(v))

----------------------------------------------------------------------------
(* The item deriver: parse_items *)

\* rows iterated by one call of parse_items
MaxRows == 1

\* headers of a table given to the header resolver
MaxCols == 3

\* r.get(header): the cell of the row under the header, a Series when the
\* header names several columns
Get(row, header) ==
    LET js == {j \in 1..Len(columns) : columns[j] = header}
    IN  IF Cardinality(js) > 1 THEN SeriesCell
        ELSE row[CHOOSE j \in js : TRUE]

Picked(field) == col[field] # NoColumn

\* line 151 and 152: (str(r.get(c)) if c else "").strip()
CellText(row, field) ==
    Strip(IF Picked(field) THEN PyStr(Get(row, col[field])) ELSE "")

\* not s or s.lower() == "nan"
Blank(text) == text = "" \/ Lower(text) = "nan"

\* line 164: int(qty) if qty and qty > 0 else 1
QtyOf(q) == IF Truthy(q) /\ Positive(q) THEN TruncInt(q) ELSE 1

\* line 164: int(inf) raises OverflowError
QtyRaises(q) == Truthy(q) /\ Positive(q) /\ q.k = "inf"

\* line 172: your_price_total is not None and not np.isnan(your_price_total)
IsPrimary(your) == your # None /\ ~isnan(your)

\* disc or 0
DiscOrZero(disc) == IF Truthy(disc) THEN disc ELSE PyInt(0)

UnitPriceUndivided(your, qty, list_price, disc) ==
    IF IsPrimary(your) THEN your
    ELSE IF list_price # None
         THEN FMul(list_price, FSub(PyInt(1), DiscOrZero(disc)))
    ELSE Fin(0, 1)

\* lines 169-185: unit_price
UnitPriceOf(your, qty, list_price, disc) ==
    IF IsPrimary(your)
    THEN IF qty # 0 THEN FDivInt(your, qty) ELSE your
    ELSE IF list_price # None
         THEN FMul(list_price, FSub(PyInt(1), DiscOrZero(disc)))
    ELSE Fin(0, 1)

\* lines 170-185: extended
ExtendedOf(your, qty, list_price, disc) ==
    IF IsPrimary(your) THEN your
    ELSE IF list_price # None
         THEN FMul(UnitPriceOf(your, qty, list_price, disc), PyInt(qty))
    ELSE Fin(0, 1)

\* `c and pd.notna(r.get(c))` raises ValueError when r.get(c) is a Series
NotnaRaises(row, field) == Picked(field) /\ Get(row, col[field]).t = "Series"

\* lines 187-190: str(r.get(c)).strip() if c and pd.notna(r.get(c)) else ""
TextOrEmpty(row, field) ==
    IF Picked(field) /\ notna(Get(row, col[field]))
    THEN Strip(PyStr(Get(row, col[field]))) ELSE ""

\* lines 151-206: what one iteration on the row does: whether it ends with
\* `continue` (lines 153-160), whether it raises, and the dict it appends
Derive(row) ==
    LET sku        == CellText(row, "sku")
        desc       == CellText(row, "description")
        first_val  == Get(row, columns[1])
        \* line 163
        raw_qty    == IF Picked("qty") THEN _num(Get(row, col.qty)) ELSE PyInt(1)
        qty        == QtyOf(raw_qty)
        \* line 167
        your       == IF Picked("discount_price")
                      THEN _num(Get(row, col.discount_price)) ELSE None
        \* line 178
        list_price == IF Picked("unit_price")
                      THEN _num(Get(row, col.unit_price)) ELSE None
        \* line 179
        disc       == IF Picked("discount")
                      THEN _num(Get(row, col.discount)) ELSE PyInt(0)
        \* line 197: c and pd.notna(r.get(c))
        has_list   == Picked("unit_price") /\ notna(Get(row, col.unit_price))
    IN  [ skipped |->
              \/ Blank(sku) /\ Blank(desc)
              \/ first_val.t = "str" /\ Lower(Strip(first_val.s)) = "totals",
          raises |->
              \/ QtyRaises(raw_qty)
              \/ NotnaRaises(row, "notes")
              \/ NotnaRaises(row, "category")
              \/ NotnaRaises(row, "unit_price")
              \/ has_list /\ list_price = None    \* float(None): TypeError
              \/ Picked("start_date") /\ FmtDateRaises(Get(row, col.start_date))
              \/ Picked("end_date") /\ FmtDateRaises(Get(row, col.end_date)),
          item |->
              [ pt_sku      |-> IF Lower(sku) = "nan" THEN "" ELSE sku,
                qty         |-> qty,
                description |-> IF Lower(desc) = "nan" THEN "" ELSE desc,
                list_price  |-> IF has_list THEN ToFloat(list_price) ELSE None,
                unit_price  |-> ToFloat(UnitPriceOf(your, qty, list_price, disc)),
                subtotal    |-> ToFloat(ExtendedOf(your, qty, list_price, disc)),
                notes       |-> TextOrEmpty(row, "notes"),
                category    |-> TextOrEmpty(row, "category"),
                start_date  |-> IF Picked("start_date")
                                THEN _fmt_date(Get(row, col.start_date)) ELSE "",
                end_date    |-> IF Picked("end_date")
                                THEN _fmt_date(Get(row, col.end_date)) ELSE "" ] ]

\* pd.isna of every cell of the row: dropna(how="all") removes the row
AllNA(row) == \A j \in 1..Len(row) : ~notna(row[j])

\* the counter is not running
CounterIdle == InitLocals /\ InitMissing

\* lines 126-128: a table without a row that holds a value
EmptyTable ==
    /\ pi_pc = "start"
    /\ pi_pc' = "done"
    /\ UNCHANGED <<df_columns, columns, col, r, items, emitted, nrows, counterVars, mainVars>>

\* lines 126-147: the headers are normalised and a column is picked per field
PickColumns ==
    /\ pi_pc = "start"
    /\ columns' = _norm_cols(df_columns)
    /\ col' = [f \in PickedFields |-> _pick(columns', LowerNames(f))]
    /\ pi_pc' = "loop"
    /\ UNCHANGED <<df_columns, r, items, emitted, nrows, counterVars, mainVars>>

\* lines 150-206: one iteration of the loop, on a row among `rows`, of a
\* table of at most `limit` rows
IterateUpTo(rows, limit) ==
    /\ pi_pc = "loop"
    /\ nrows < limit
    /\ \E row \in rows :
           LET d == Derive(row)
           IN  /\ ~AllNA(row)
               /\ r' = row
               /\ IF d.skipped
                  THEN /\ items' = items
                       /\ emitted' = FALSE
                       /\ pi_pc' = "loop"
                  ELSE IF d.raises
                  THEN /\ items' = items
                       /\ emitted' = FALSE
                       /\ pi_pc' = "raised"
                  ELSE /\ items' = Append(items, d.item)
                       /\ emitted' = TRUE
                       /\ pi_pc' = "loop"
    /\ nrows' = nrows + 1
    /\ UNCHANGED <<df_columns, columns, col, counterVars, mainVars>>

Iterate(rows) == IterateUpTo(rows, MaxRows)

\* line 207: return items
ReturnItems ==
    /\ pi_pc = "loop"
    /\ pi_pc' = "done"
    /\ UNCHANGED <<df_columns, columns, col, r, items, emitted, nrows, counterVars, mainVars>>

\* parse_items is called on a table with the headers `headers`
InitParse(headers) ==
    /\ CounterIdle
    /\ df_columns = headers
    /\ columns = <<>>
    /\ col = [f \in PickedFields |-> NoColumn]
    /\ r = <<>>
    /\ items = <<>>
    /\ emitted = FALSE
    /\ nrows = 0
    /\ pi_pc = "start"
    /\ bom_total = 0
    /\ groups = <<>>
    /\ main_pc = "parse"
    /\ quote_number = ""
    /\ counter_calls = 0
    /\ outputs = <<>>

\* all sequences over S of length 1 to n
RECURSIVE SeqsUpTo(_, _)
SeqsUpTo(S, n) ==
    IF n = 0 THEN {<<>>}
    ELSE LET shorter == SeqsUpTo(S, n - 1)
         IN  shorter \cup {Append(q, x) : q \in shorter, x \in S}

\* headers as written in a sheet
HeaderPool ==
    {"SKU", " Qty", "Price", "Unit Price (USD)", "Your Price", "Discount Price",
     "Item Description", "Amount"}

\* the row whose every cell holds the same text
TextRow == [j \in 1..Len(df_columns) |-> StrCell("x")]

IterateText == Iterate({TextRow})

\* the header resolver on every header row of up to MaxCols headers
InitPick == \E h \in SeqsUpTo(HeaderPool, MaxCols) \ {<<>>} : InitParse(h)

NextPick == EmptyTable \/ PickColumns \/ IterateText \/ ReturnItems

SpecPick == InitPick /\ [][NextPick]_vars

\* header rows of sheets of priced lines
Layouts ==
    { <<"SKU", "Description", " Qty ", "Your Price", "List Price", "Discount">>,
      <<"Part Number", "Quantity", "Unit Price", "Discount">>,
      <<"sku", "qty", "discount price">>,
      <<"Item", "Net Price">>,
      <<"SKU", "Amount">> }

QtyCells ==
    { IntCell(3), FloatCell(250), FloatCell(50), IntCell(0), IntCell(-2),
      NaNCell, NoneCell, StrCell("two"), StrCell("1,000"), StrCell("inf") }

YourPriceCells ==
    { IntCell(90), FloatCell(4550), NaNCell, NoneCell, StrCell("$1,200.50"),
      StrCell("n/a") }

ListPriceCells == { IntCell(50), FloatCell(1999), NaNCell, NoneCell, StrCell("TBD") }

DiscountCells == { FloatCell(10), IntCell(0), NaNCell, NoneCell, StrCell("10%") }

\* serial numbers around 2021-01-01
FirstSerial == 44190

LastSerial == 44240

\* what a cell of a column of dates may hold: serial numbers in and out of
\* the range of pd.Timestamp, timestamps, blanks and text
DateInputs ==
    {IntCell(n) : n \in FirstSerial..LastSerial} \cup
    { IntCell(0), IntCell(1), IntCell(2), IntCell(61), IntCell(-1),
      IntCell(132320), IntCell(132321), IntCell(200000),
      FloatCell(4419750), FloatCell(20000000),
      NaNCell, NoneCell, NaTCell, DateCell(18628), DateCell(19000),
      StrCell("  "), StrCell("not a date"), StrCell(" not a date "),
      StrCell("2021-01-01"), StrCell(" 2021-03-05 "), StrCell("TBD") }

\* the cells drawn for the column under a header
CellsUnder(header) ==
    LET h == Lower(Strip(header))
    IN  CASE h \in {"qty", "quantity"} -> QtyCells
          [] h \in {"your price", "net price", "discount price"} -> YourPriceCells
          [] h \in {"list price", "unit price"} -> ListPriceCells
          [] h = "discount" -> DiscountCells
          [] h \in {"sku", "part number", "item"} -> {StrCell("A1")}
          [] h = "description" -> {StrCell("Widget")}
          [] h = "start date" -> DateInputs
          [] OTHER -> {IntCell(7)}

\* the rows drawn for a table with the given headers: a cell per column
RECURSIVE RowsUnder(_, _)
RowsUnder(headers, n) ==
    IF n = 0 THEN {<<>>}
    ELSE {Append(row, c) : row \in RowsUnder(headers, n - 1),
                           c \in CellsUnder(headers[n])}

IterateRow == Iterate(RowsUnder(df_columns, Len(df_columns)))

\* the item deriver on sheets of priced lines
InitItems == \E h \in Layouts : InitParse(h)

NextItems == EmptyTable \/ PickColumns \/ IterateRow \/ ReturnItems

SpecItems == InitItems /\ [][NextItems]_vars

\* the date normaliser on the cells of a column of dates
InitDates == InitParse(<<"SKU", "Start Date">>)

NextDates == EmptyTable \/ PickColumns \/ IterateRow \/ ReturnItems

SpecDates == InitDates /\ [][NextDates]_vars

\* rows of the sheets below iterated in one behaviour
MaxSheetRows == 2

\* sheets with blank and absent sku and description cells, rows of totals,
\* header cells left empty, and columns of the extended family: the headers
\* and, per column, the cells drawn
Sheets ==
    { [ headers |-> <<"SKU", "Description", "Your Price">>,
        cells   |-> << {StrCell("A1"), NoneCell, NaNCell, StrCell("  "),
                        StrCell("Totals"), StrCell(" TOTALS")},
                       {StrCell("Widget"), NoneCell, NaNCell, StrCell("totals")},
                       {IntCell(90)} >> ],
      [ headers |-> <<"Ref", "Amount">>,
        cells   |-> << {StrCell("A1"), StrCell("totals")},
                       {IntCell(90), IntCell(120)} >> ],
      [ headers |-> <<"", "SKU", "Your Price", "">>,
        cells   |-> << {StrCell("Totals"), StrCell("x"), NoneCell},
                       {StrCell("A1"), NoneCell},
                       {IntCell(90)},
                       {NoneCell} >> ],
      [ headers |-> <<"SKU", "Qty", "Extended Price">>,
        cells   |-> << {StrCell("A1")}, {IntCell(2)},
                       {IntCell(100), IntCell(200), NaNCell} >> ],
      [ headers |-> <<"SKU", "Your Price", "Line Total">>,
        cells   |-> << {StrCell("A1")}, {IntCell(90)},
                       {IntCell(100), IntCell(200), StrCell("n/a")} >> ],
      [ headers |-> <<"SKU", "Your Price", "Extended">>,
        cells   |-> << {StrCell("A1")}, {IntCell(90)},
                       {IntCell(44197), IntCell(44198), NaNCell} >> ] }

\* the sheet with the given headers
SheetOf(headers) == CHOOSE sh \in Sheets : sh.headers = headers

\* the rows drawn from the cells of n columns
RECURSIVE RowsFrom(_, _)
RowsFrom(cells, n) ==
    IF n = 0 THEN {<<>>}
    ELSE {Append(row, c) : row \in RowsFrom(cells, n - 1), c \in cells[n]}

IterateSheet ==
    IterateUpTo(RowsFrom(SheetOf(df_columns).cells, Len(df_columns)), MaxSheetRows)

\* the item deriver on the sheets
InitRows == \E sh \in Sheets : InitParse(sh.headers)

NextRows == EmptyTable \/ PickColumns \/ IterateSheet \/ ReturnItems

SpecRows == InitRows /\ [][NextRows]_vars

----------------------------------------------------------------------------
(* The totals and the groups: main, lines 309-338 *)

\* a + b of two floats
FAdd(a, b) ==
    IF a.k = "nan" \/ b.k = "nan" THEN NaN
    ELSE IF a.k = "inf" /\ b.k = "inf"
         THEN IF a.n = b.n THEN Inf(a.n) ELSE NaN
    ELSE IF a.k = "inf" THEN Inf(a.n)
    ELSE IF b.k = "inf" THEN Inf(b.n)
    ELSE Fin(a.n * b.d + b.n * a.d, a.d * b.d)

\* np.nansum of the floats of a list: a NaN counts as zero
RECURSIVE nansum(_)
nansum(xs) ==
    IF xs = <<>> THEN Fin(0, 1)
    ELSE FAdd(nansum(SubSeq(xs, 1, Len(xs) - 1)),
              IF isnan(xs[Len(xs)]) THEN Fin(0, 1) ELSE xs[Len(xs)])

\* lines 310-311
BomTotalOf(its) ==
    IF its # <<>> THEN nansum([i \in 1..Len(its) |-> its[i].subtotal])
    ELSE Fin(0, 1)

\* lines 314-316
_cat_name(v) == IF Strip(v) # "" THEN Strip(v) ELSE "Uncategorized"

\* the categories in the order of their last occurrence
RECURSIVE LastSeenCategories(_)
LastSeenCategories(its) ==
    IF its = <<>> THEN <<>>
    ELSE LET c == _cat_name(its[Len(its)].category)
         IN  Append(SelectSeq(LastSeenCategories(SubSeq(its, 1, Len(its) - 1)),
                              LAMBDA x : x # c), c)

\* lines 319-325: ordered_categories
RECURSIVE OrderedCategories(_)
OrderedCategories(its) ==
    IF its = <<>> THEN <<>>
    ELSE LET before == OrderedCategories(SubSeq(its, 1, Len(its) - 1))
             c      == _cat_name(its[Len(its)].category)
         IN  IF \E i \in 1..Len(before) : before[i] = c THEN before
             ELSE Append(before, c)

\* line 336: float(it.get("subtotal") or 0.0)
SubtotalOrZero(x) == IF Truthy(x) THEN x ELSE Fin(0, 1)

\* lines 332-336: subtotal += ... over the items of a group, from 0.0
RECURSIVE Accumulate(_)
Accumulate(its) ==
    IF its = <<>> THEN Fin(0, 1)
    ELSE FAdd(Accumulate(SubSeq(its, 1, Len(its) - 1)),
              SubtotalOrZero(its[Len(its)].subtotal))

\* lines 327-338: items_by_category
GroupsOf(its) ==
    LET cats == OrderedCategories(its)
    IN  [g \in 1..Len(cats) |->
            LET mine == SelectSeq(its, LAMBDA it : _cat_name(it.category) = cats[g])
            IN  [category |-> cats[g], items |-> mine, subtotal |-> Accumulate(mine)]]

\* lines 309-338: after parse_items has returned
Totals ==
    /\ pi_pc = "done"
    /\ main_pc = "parse"
    /\ bom_total' = BomTotalOf(items)
    /\ groups' = GroupsOf(items)
    /\ main_pc' = "grouped"
    /\ UNCHANGED <<itemVars, counterVars, quote_number, counter_calls, outputs>>

\* rows of a sheet of categories iterated in one behaviour
MaxLines == 3

\* a sheet of lines with a category and a list price
LinesHeaders == <<"SKU", "Category", "List Price">>

CategoryCells == {StrCell("B"), StrCell("A"), StrCell(" B "), NaNCell}

LinePriceCells == {IntCell(10), FloatCell(250), NaNCell}

LineRows ==
    {<<StrCell("A1"), c, p>> : c \in CategoryCells, p \in LinePriceCells}

IterateLine == IterateUpTo(LineRows, MaxLines)

\* main from parse_items to the groups, on the sheet of lines
InitMain == InitParse(LinesHeaders)

NextMain == EmptyTable \/ PickColumns \/ IterateLine \/ ReturnItems \/ Totals

SpecMain == InitMain /\ [][NextMain]_vars

----------------------------------------------------------------------------
(* One invocation of main after the other *)

\* the process that runs main
Me == 1

\* lines 250-274: --usehtml, an existing HTML file is turned into a PDF
HtmlToPdf ==
    /\ main_pc = "idle"
    /\ main_pc' = "done"
    /\ UNCHANGED <<counterVars, itemVars, bom_total, groups, quote_number,
                   counter_calls, outputs>>

\* lines 281-283: the Excel file does not exist, FileNotFoundError
ExcelMissing ==
    /\ main_pc = "idle"
    /\ main_pc' = "aborted"
    /\ UNCHANGED <<counterVars, itemVars, bom_total, groups, quote_number,
                   counter_calls, outputs>>

\* the sheet of the quotes below
QuoteHeaders == <<"SKU", "List Price">>

QuoteRows == {<<StrCell("A1"), IntCell(10)>>, <<StrCell("A1"), StrCell("TBD")>>}

\* lines 297-309: the sheet is read and parse_items is called on it
ReadTable ==
    /\ main_pc = "idle"
    /\ main_pc' = "parse"
    /\ df_columns' = QuoteHeaders
    /\ columns' = <<>>
    /\ col' = [f \in PickedFields |-> NoColumn]
    /\ pi_pc' = "start"
    /\ UNCHANGED <<counterVars, r, items, emitted, nrows, bom_total, groups,
                   quote_number, counter_calls, outputs>>

\* rows of the sheet iterated in one invocation
MaxQuoteRows == 1

IterateQuote == IterateUpTo(QuoteRows, MaxQuoteRows)

\* line 309: parse_items raises and main ends with the exception
ParseRaised ==
    /\ main_pc = "parse"
    /\ pi_pc = "raised"
    /\ main_pc' = "aborted"
    /\ UNCHANGED <<counterVars, itemVars, bom_total, groups, quote_number,
                   counter_calls, outputs>>

\* line 347: main calls pop_and_increment_quote_number
MainCall ==
    /\ main_pc = "grouped"
    /\ CallBy(Me, MaxCalls)
    /\ main_pc' = "issuing"
    /\ counter_calls' = counter_calls + 1
    /\ UNCHANGED <<bom_total, groups, quote_number, outputs>>

\* line 347: the call returns and meta["quote_number"] is set
MainReturn ==
    /\ main_pc = "issuing"
    /\ ReturnTo(Me)
    /\ quote_number' = Ident(Prefix, current[Me])
    /\ main_pc' = "issued"
    /\ UNCHANGED <<bom_total, groups, counter_calls, outputs>>

\* line 347: the call raises and main ends with the exception
MainCaught ==
    /\ main_pc = "issuing"
    /\ CaughtBy(Me)
    /\ main_pc' = "aborted"
    /\ UNCHANGED <<bom_total, groups, quote_number, counter_calls, outputs>>

\* the quote is written with the identifier while the call is under way
RenderBeforeReturn ==
    /\ main_pc = "issuing"
    /\ pc[Me] \in {"open", "write", "replace"}
    /\ outputs' = Append(outputs, Ident(Prefix, current[Me]))
    /\ main_pc' = "written"
    /\ UNCHANGED <<counterVars, itemVars, bom_total, groups, quote_number,
                   counter_calls>>

\* lines 349-409: the output path and the context take the identifier, the
\* HTML is rendered and written
Render ==
    /\ main_pc = "issued"
    /\ outputs' = Append(outputs, quote_number)
    /\ main_pc' = "written"
    /\ UNCHANGED <<counterVars, itemVars, bom_total, groups, quote_number,
                   counter_calls>>

\* lines 349-409: making the directory, rendering or writing raises
RenderFails ==
    /\ main_pc = "issued"
    /\ main_pc' = "aborted"
    /\ UNCHANGED <<counterVars, itemVars, bom_total, groups, quote_number,
                   counter_calls, outputs>>

\* line 412: the PDF is written
WritePdf ==
    /\ main_pc = "written"
    /\ main_pc' = "done"
    /\ UNCHANGED <<counterVars, itemVars, bom_total, groups, quote_number,
                   counter_calls, outputs>>

\* line 412: write_pdf_via_playwright raises
PdfFails ==
    /\ main_pc = "written"
    /\ main_pc' = "aborted"
    /\ UNCHANGED <<counterVars, itemVars, bom_total, groups, quote_number,
                   counter_calls, outputs>>

\* the program is run again: nothing is kept but the files
NextRun ==
    /\ main_pc \in {"done", "aborted"}
    /\ main_pc' = "idle"
    /\ df_columns' = <<>>
    /\ columns' = <<>>
    /\ col' = <<>>
    /\ r' = <<>>
    /\ items' = <<>>
    /\ emitted' = FALSE
    /\ nrows' = 0
    /\ pi_pc' = "idle"
    /\ bom_total' = 0
    /\ groups' = <<>>
    /\ quote_number' = ""
    /\ counter_calls' = 0
    /\ UNCHANGED <<counterVars, outputs>>

\* the steps of pop_and_increment_quote_number inside main
CounterStepOfMain ==
    \/ ReadCounter(Me)
    \/ OpenTmp(Me)
    \/ WriteTmp(Me)
    \/ CloseTmp(Me)
    \/ ReplaceTmp(Me)
    \/ FailWrite(Me)
    \/ FailReplace(Me)

InitQuote == InitSeq

NextQuote ==
    \/ HtmlToPdf \/ ExcelMissing \/ ReadTable
    \/ EmptyTable \/ PickColumns \/ IterateQuote \/ ReturnItems \/ ParseRaised
    \/ Totals
    \/ MainCall \/ CounterStepOfMain \/ MainReturn \/ MainCaught
    \/ Render \/ RenderFails \/ WritePdf \/ PdfFails
    \/ NextRun

SpecQuote == InitQuote /\ [][NextQuote]_vars

----------------------------------------------------------------------------
(* Properties of the header resolver *)

Min(S) == CHOOSE x \in S : \A y \in S : x <= y

\* the columns have been picked
Resolved == pi_pc \in {"loop", "done", "raised"} /\ columns # <<>>

\* a header as _norm_cols leaves it: trimmed, without upper-case letter
IsNormalised(h) ==
    /\ \A i \in 1..Len(h) : \A u \in 1..26 : Char(h, i) # Char(UpperLetters, u)
    /\ Len(h) > 0 => ~IsSpace(Char(h, 1)) /\ ~IsSpace(Char(h, Len(h)))

\* the aliases, by rank, that equal a header
ExactAliases(cols, names) ==
    {i \in 1..Len(names) : \E j \in 1..Len(cols) : cols[j] = names[i]}

\* the aliases, by rank, found inside a header
SubstringAliases(cols, names) ==
    {i \in 1..Len(names) : \E j \in 1..Len(cols) : Contains(cols[j], names[i])}

\* the resolution C6 states
ClaimedPick(cols, names) ==
    IF ExactAliases(cols, names) # {}
    THEN names[Min(ExactAliases(cols, names))]
    ELSE IF SubstringAliases(cols, names) # {}
    THEN LET a == names[Min(SubstringAliases(cols, names))]
         IN  cols[Min({j \in 1..Len(cols) : Contains(cols[j], a)})]
    ELSE NoColumn

\* C6: on the normalised headers, every canonical field resolves to the first
\* alias in preference order that equals a header, even when a preferred alias
\* is found inside another header; failing that, to the first header in column
\* order that holds the first alias found inside any header; failing that, to
\* none.
C6_PickResolution ==
    Resolved =>
        /\ Len(columns) = Len(df_columns)
        /\ \A j \in 1..Len(columns) : IsNormalised(columns[j])
        /\ \A f \in PickedFields : col[f] = ClaimedPick(columns, CANDIDATES[f])
        /\ \A f \in Fields :
               _pick(columns, LowerNames(f)) = ClaimedPick(columns, CANDIDATES[f])

\* "price" is a header and "unit price", preferred to it, is inside another
C6_ExactBeatsPreferredSubstring ==
    /\ Resolved
    /\ col.unit_price = "price"
    /\ \E j \in 1..Len(columns) :
           columns[j] # "unit price" /\ Contains(columns[j], "unit price")
    /\ col.sku = "item description"
    /\ col.qty = NoColumn

----------------------------------------------------------------------------
(* Properties of the item deriver *)

\* the item the iteration just done appended
LastItem == items[Len(items)]

\* a finite number
IsNumber(a) == a.k \in {"fin", "int"}

\* the quotient a / b of two finite numbers, b # 0
RatDiv(a, b) ==
    IF b.n > 0 THEN Fin(a.n * b.d, a.d * b.n) ELSE Fin(-(a.n * b.d), a.d * (-b.n))

\* the product a * b of two finite numbers
RatMul(a, b) == Fin(a.n * b.n, a.d * b.d)

\* 1 - a for a finite number a
OneMinus(a) == Fin(a.d - a.n, a.d)

\* the value of the row's cell in the column of a field; None when the column
\* is unresolved or the cell gives no number
CellNumber(field) ==
    IF col[field] = NoColumn THEN None ELSE _num(Get(r, col[field]))

\* the row has a numeric discount_price value V and a qty Q > 0
HasTotalAndQty ==
    /\ emitted
    /\ IsNumber(CellNumber("discount_price"))
    /\ IsNumber(CellNumber("qty")) /\ CellNumber("qty").n > 0

\* C8 as stated: with a numeric discount_price value V and a qty Q > 0, the
\* item has subtotal = V and unit_price = V / Q, whatever the list-price and
\* discount cells hold.
C8_AsStated ==
    HasTotalAndQty =>
        /\ LastItem.subtotal = CellNumber("discount_price")
        /\ LastItem.unit_price =
               RatDiv(CellNumber("discount_price"), CellNumber("qty"))

\* Q cut to an integer, 1 when that leaves 0
WholeQty(q) == IF q.n \div q.d >= 1 THEN q.n \div q.d ELSE 1

\* C8 as amended: with a numeric discount_price value V and a qty Q > 0, the
\* item has subtotal = V and unit_price = V / n, where n is Q cut to an
\* integer and taken as 1 when that leaves 0, whatever the list-price and
\* discount cells hold.
C8_TotalOverWholeQty ==
    HasTotalAndQty =>
        /\ LastItem.subtotal = CellNumber("discount_price")
        /\ LastItem.unit_price =
               RatDiv(CellNumber("discount_price"),
                      PyInt(WholeQty(CellNumber("qty"))))

\* a line total of 90 for a qty of 2.5, beside a list price and a discount
C8_TotalSplitOverCutQty ==
    /\ emitted
    /\ \A f \in {"discount_price", "qty", "unit_price", "discount"} : Picked(f)
    /\ Get(r, col.discount_price) = IntCell(90)
    /\ Get(r, col.qty) = FloatCell(250)
    /\ Get(r, col.unit_price) = IntCell(50)
    /\ Get(r, col.discount) = FloatCell(10)
    /\ LastItem.qty = 2
    /\ LastItem.unit_price = Fin(45, 1)
    /\ LastItem.subtotal = Fin(90, 1)

\* the qty cell does not give a number above zero
QtyDefaults ==
    \/ col.qty = NoColumn
    \/ ~notna(Get(r, col.qty))
    \/ CellNumber("qty") = None
    \/ CellNumber("qty").k = "nan"
    \/ IsNumber(CellNumber("qty")) /\ CellNumber("qty").n <= 0

\* C9: every item has an integer qty >= 1, and a qty of exactly 1 when the qty
\* column is unresolved or the cell is missing, blank, non-numeric, zero or
\* negative.
C9_AsStated ==
    /\ \A i \in 1..Len(items) : items[i].qty \in Nat /\ items[i].qty >= 1
    /\ (emitted /\ QtyDefaults) => LastItem.qty = 1

\* the discount_price column is unresolved or its cell is absent or non-numeric
NoTotal ==
    \/ col.discount_price = NoColumn
    \/ ~notna(Get(r, col.discount_price))
    \/ ~IsNumber(CellNumber("discount_price"))

\* the discount fraction of C10: the number in the discount cell, 0 when the
\* column is unresolved or the cell is blank or unparsable
ClaimedDiscount ==
    IF col.discount = NoColumn THEN Fin(0, 1)
    ELSE IF ~notna(Get(r, col.discount)) THEN Fin(0, 1)
    ELSE IF ~IsNumber(CellNumber("discount")) THEN Fin(0, 1)
    ELSE CellNumber("discount")

\* C10: the fallback derivation is used exactly when the discount_price column
\* is unresolved or its cell is absent or non-numeric; then, with a numeric
\* list price L, unit_price = L * (1 - d) and subtotal = unit_price * qty, d
\* being the discount cell's number, 0 when the discount column is unresolved
\* or the cell is blank or unparsable.
C10_AsStated ==
    emitted =>
        /\ ~NoTotal => LastItem.subtotal = CellNumber("discount_price")
        /\ (NoTotal /\ IsNumber(CellNumber("unit_price"))) =>
               /\ LastItem.unit_price =
                      RatMul(CellNumber("unit_price"), OneMinus(ClaimedDiscount))
               /\ LastItem.subtotal =
                      RatMul(LastItem.unit_price, PyInt(LastItem.qty))

\* an iteration has been done on the row r
RowDone == pi_pc \in {"loop", "raised", "done"} /\ nrows > 0 /\ r # <<>>

\* the value of a field is blank or absent in the row: no column, an empty
\* cell, or text of spaces only
BlankOrAbsent(field) ==
    \/ col[field] = NoColumn
    \/ Get(r, col[field]).t \in {"nan", "None", "NaT"}
    \/ Get(r, col[field]).t = "str" /\ Strip(Get(r, col[field]).s) = ""

\* the first cell of the row is text that reads "totals" in some letter case
ReadsTotals == r[1].t = "str" /\ Lower(Strip(r[1].s)) = "totals"

\* the row is one the item deriver is to skip
ToBeSkipped ==
    \/ BlankOrAbsent("sku") /\ BlankOrAbsent("description")
    \/ ReadsTotals

\* C11: a row that is not skipped and whose discount_price cell and list-price
\* cell both give no number (column unresolved, cell blank or missing, text
\* that does not parse) still gives one item, with unit_price 0 and subtotal 0.
C11_AsStated ==
    ( /\ RowDone
      /\ ~ToBeSkipped
      /\ ~IsNumber(CellNumber("discount_price"))
      /\ ~IsNumber(CellNumber("unit_price")) ) =>
        /\ emitted
        /\ LastItem.unit_price = Fin(0, 1)
        /\ LastItem.subtotal = Fin(0, 1)

\* C12: parse_items never raises because of what a cell holds.
C12_AsStated == pi_pc # "raised"

----------------------------------------------------------------------------
(* Properties of the date normaliser *)

IsLeap(y) == y % 4 = 0 /\ (y % 100 # 0 \/ y % 400 = 0)

DaysInYear(y) == IF IsLeap(y) THEN 366 ELSE 365

DaysInMonth(y, m) ==
    IF m = 2 THEN (IF IsLeap(y) THEN 29 ELSE 28)
    ELSE IF m \in {4, 6, 9, 11} THEN 30 ELSE 31

\* the date k days after the first of month m of year y
RECURSIVE FromMonth(_, _, _)
FromMonth(y, m, k) ==
    IF k >= DaysInMonth(y, m) THEN FromMonth(y, m + 1, k - DaysInMonth(y, m))
    ELSE Pad(y, 4) \o "-" \o Pad(m, 2) \o "-" \o Pad(k + 1, 2)

\* leap years among the years 1 to y
LeapsUpTo(y) == (y \div 4) - (y \div 100) + (y \div 400)

\* days of the n years from y on
DaysOfYears(y, n) == 365 * n + LeapsUpTo(y + n - 1) - LeapsUpTo(y - 1)

\* the date k days after the first of January of year y
RECURSIVE FromYear(_, _)
FromYear(y, k) ==
    IF k >= DaysOfYears(y, 100) THEN FromYear(y + 100, k - DaysOfYears(y, 100))
    ELSE IF k >= DaysOfYears(y, 10) THEN FromYear(y + 10, k - DaysOfYears(y, 10))
    ELSE IF k >= DaysInYear(y) THEN FromYear(y + 1, k - DaysInYear(y))
    ELSE FromMonth(y, 1, k)

\* the date n days after 1899-12-30, for n >= 0, counted on the calendar
DaysAfterOrigin(n) ==
    IF n = 0 THEN "1899-12-30"
    ELSE IF n = 1 THEN "1899-12-31"
    ELSE FromYear(1900, n - 2)

\* the start-date column is picked and an iteration has been done on r
DateRowDone == RowDone /\ col.start_date # NoColumn

\* the cell _fmt_date was given
DateInput == Get(r, col.start_date)

\* the string _fmt_date returned
DateOutput == LastItem.start_date

\* C18: _fmt_date returns the result of the first rule that applies: "" for
\* None, NaN and text of spaces only; the YYYY-MM-DD form of a native date or
\* datetime; for a number n the date n days after 1899-12-30.  A blank input
\* gives "" and no other string.
C18_AsStated ==
    DateRowDone =>
        /\ emitted
        /\ DateInput.t \in {"None", "nan", "NaT"} => DateOutput = ""
        /\ (DateInput.t = "str" /\ Strip(DateInput.s) = "") => DateOutput = ""
        /\ DateInput.t = "date" =>
               DateOutput = DaysAfterOrigin(DateInput.v + SerialEpochOffset)
        /\ (DateInput.t = "int" /\ DateInput.v >= 0) =>
               DateOutput = DaysAfterOrigin(DateInput.v)
        /\ (DateInput.t = "float" /\ DateInput.v >= 0) =>
               DateOutput = DaysAfterOrigin(DateInput.v \div 100)

\* text that no parsing attempt reads as a date
NotADate(text) == ~IsIsoDate(Strip(text))

\* C19: for a string that no parsing attempt reads, _fmt_date returns the
\* string unchanged, character for character, and does not raise.
C19_AsStated ==
    ( /\ DateRowDone
      /\ DateInput.t = "str"
      /\ Strip(DateInput.s) # ""
      /\ NotADate(DateInput.s) ) =>
        /\ emitted
        /\ DateOutput = DateInput.s

----------------------------------------------------------------------------
(* Properties of the rows skipped and of the columns ignored *)

\* C13: a row whose sku and description values are both blank or absent,
\* also when neither column resolves, gives no item; every other row that is
\* not a row of totals gives exactly one item, appended in row order.
C13_AsStated ==
    RowDone =>
        /\ (BlankOrAbsent("sku") /\ BlankOrAbsent("description")) => ~emitted
        /\ ~ToBeSkipped => emitted

\* C14: a row whose first cell reads "Totals" in any letter case gives no item,
\* whatever its other cells hold.
C14_AsStated == (RowDone /\ ReadsTotals) => ~emitted

\* the columns whose header is an alias of the extended family
ExtendedColumns ==
    {j \in 1..Len(columns) :
        \E i \in 1..Len(CANDIDATES.extended) : columns[j] = CANDIDATES.extended[i]}

\* C15: the cells of a column whose header is an alias of the extended family
\* have no influence on the items: the row r with another cell in such a
\* column gives the item r gave.
C15_AsStated ==
    (RowDone /\ emitted) =>
        \A j \in ExtendedColumns : \A c \in SheetOf(df_columns).cells[j] :
            LET other == Derive([r EXCEPT ![j] = c])
            IN  ~other.skipped /\ ~other.raises /\ other.item = LastItem

----------------------------------------------------------------------------
(* Properties of the totals and the groups *)

Grouped == main_pc = "grouped"

\* the category of an item: its text trimmed, "Uncategorized" when blank
CategoryOf(it) ==
    IF Strip(it.category) = "" THEN "Uncategorized" ELSE Strip(it.category)

\* the rank of the first item of category c
FirstSeen(c) == Min({i \in 1..Len(items) : CategoryOf(items[i]) = c})

\* C16: the groups come in the order in which each distinct category (blank
\* read as "Uncategorized") first occurs among the items, one group per
\* distinct category, and each group holds its items in row order.
C16_GroupsInFirstSeenOrder ==
    Grouped =>
        /\ {groups[g].category : g \in 1..Len(groups)} =
               {CategoryOf(items[i]) : i \in 1..Len(items)}
        /\ \A g, h \in 1..Len(groups) :
               g < h => FirstSeen(groups[g].category) < FirstSeen(groups[h].category)
        /\ \A g \in 1..Len(groups) :
               groups[g].items =
                   SelectSeq(items, LAMBDA it : CategoryOf(it) = groups[g].category)

\* categories B, A, B give the groups B, A
C16_GroupsBThenA ==
    /\ Grouped
    /\ Len(items) = 3
    /\ items[1].category = "B" /\ items[2].category = "A" /\ items[3].category = "B"
    /\ Len(groups) = 2
    /\ groups[1].category = "B" /\ groups[2].category = "A"
    /\ Len(groups[1].items) = 2

\* the sum of the numbers f(1), ..., f(n)
RECURSIVE SumTo(_, _)
SumTo(f, n) == IF n = 0 THEN Fin(0, 1) ELSE FAdd(SumTo(f, n - 1), f[n])

\* C17: the grand total equals the sum of the subtotals of the groups and
\* equals the sum of the subtotals of the items.
C17_AsStated ==
    Grouped =>
        /\ bom_total = SumTo([g \in 1..Len(groups) |-> groups[g].subtotal], Len(groups))
        /\ bom_total = SumTo([i \in 1..Len(items) |-> items[i].subtotal], Len(items))

\* the subtotals that are numbers, the others read as zero
NumberOrZero(x) == IF x.k = "nan" THEN Fin(0, 1) ELSE x

\* C20: when the subtotal of an item is NaN the grand total is still a
\* number, the sum of the subtotals that are not NaN, and no total of the
\* quote, grand or of a category, is NaN for the items that are not.
C20_AsStated ==
    Grouped =>
        /\ bom_total =
               SumTo([i \in 1..Len(items) |-> NumberOrZero(items[i].subtotal)],
                     Len(items))
        /\ \A g \in 1..Len(groups) :
               (\E i \in 1..Len(groups[g].items) :
                    groups[g].items[i].subtotal.k # "nan")
               => groups[g].subtotal.k # "nan"

----------------------------------------------------------------------------
(* Properties of the quote counter where writing fails, and of main *)

\* the counter file: whether it exists and what it holds
CounterFile ==
    IF Exists(CounterPath) THEN <<TRUE, Content(CounterPath)>> ELSE <<FALSE, "">>

----------------------------------------------------------------------------
(* Property of the line total *)

\* C23: every item has subtotal = unit_price * qty, whichever derivation gave
\* it and whatever the qty cell held.
C23_AsStated ==
    \A i \in 1..Len(items) :
        /\ IsNumber(items[i].unit_price)
        /\ IsNumber(items[i].subtotal)
        /\ items[i].subtotal = RatMul(items[i].unit_price, PyInt(items[i].qty))

----------------------------------------------------------------------------
(* Properties of the issue of the identifier in main *)

\* the invocation of main is over
MainOver == main_pc \in {"done", "aborted"}

\* main holds an identifier
Issued == quote_number # ""

\* the counter file holds the numeral of a number above that of the identifier
PersistedBeyond(ident) ==
    /\ Exists(CounterPath)
    /\ \E n \in 1..(IdentInt(ident) + 1) :
           /\ IsIdentOf(ident, Prefix, n)
           /\ \E m \in (n + 1)..(n + MaxCalls + 1) : CounterHolds(m)

\* the order of issue and use, and what a failure after the issue leaves
IssueBeforeUse ==
    /\ Issued => CounterHolds(IdentInt(quote_number) + 1)
    /\ Issued => quote_number = returned[Len(returned)]
    /\ \A i \in 1..Len(outputs) :
           /\ \E j \in 1..Len(returned) : outputs[i] = returned[j]
           /\ PersistedBeyond(outputs[i])
    /\ \A i \in 1..Len(returned) : PersistedBeyond(returned[i])
    /\ \A i, j \in 1..Len(returned) : i < j => returned[i] # returned[j]

\* C22 as stated: within one invocation of main the counter is read exactly
\* once, and the incremented value is in the counter file before the
\* identifier is used for the name of the output or for the context; a
\* failure of rendering or of the PDF after the issue leaves the number
\* consumed, and no later invocation issues it again.
C22_AsStated ==
    /\ MainOver => counter_calls = 1
    /\ IssueBeforeUse

\* C22 as amended: the counter is read at most once, and exactly once in an
\* invocation that reaches line 347 (none in HTML mode or when the invocation
\* ends before); the rest as stated.
C22_IssuedOnceBeforeUse ==
    /\ counter_calls <= 1
    /\ main_pc \in {"issuing", "issued", "written"} => counter_calls = 1
    /\ Issued => counter_calls = 1
    /\ (MainOver /\ counter_calls = 0) => ~Issued
    /\ IssueBeforeUse

\* the first number issued was lost to a failure after its issue; the next
\* invocation issued another one and wrote its quote
C22_LostNumberNotReissued ==
    /\ Len(returned) = 2
    /\ outputs = <<returned[2]>>
    /\ returned[1] # returned[2]
    /\ main_pc = "done"
    /\ counter_calls = 1
    /\ CounterHolds(IdentInt(quote_number) + 1)

====
